---- MODULE Spec2Model ----
(***************************************************************************)
(* Query-parameter synchronizer of registry/hooks/use-query-state.ts:      *)
(* useQueryString (single key) and useQueryStrings (several keys) keep the *)
(* URL query in line with a per-key configuration (defaultValue, schema,   *)
(* onParseError).  The URL query is a URLSearchParams list of (name,value) *)
(* entries; a hook instance reads it at render time, reconciles it in a    *)
(* post-render effect and rewrites it with router.replace.                 *)
(***************************************************************************)
EXTENDS Naturals, Sequences, FiniteSets, TLC

VARIABLES url, hook, isMounted, searchParams, effectPending, hasRun, last

vars == <<url, hook, isMounted, searchParams, effectPending, hasRun, last>>

(***************************************************************************)
(* Bound of the model: the length of the query string at mount.            *)
(***************************************************************************)
MaxUrlLen == 2

(***************************************************************************)
(* Value universe.  Null is what URLSearchParams.get returns for a missing *)
(* name, Undefined an option that is not supplied, Fail a safeParse result *)
(* with success = false.                                                   *)
(***************************************************************************)
Null == "<null>"
Undefined == "<undefined>"
Fail == "<fail>"

Values == {"", "a", "b"}
AllKeys == {"page", "sort", "utm"}

RECURSIVE SeqsUpTo(_, _)
SeqsUpTo(S, n) ==
  IF n = 0 THEN {<<>>}
  ELSE LET shorter == SeqsUpTo(S, n - 1)
       IN shorter \cup {Append(s, e) : s \in {t \in shorter : Len(t) = n - 1}, e \in S}

(***************************************************************************)
(* URLSearchParams: an ordered list of entries, names may repeat.          *)
(***************************************************************************)
SearchParamsHas(sp, key) == \E i \in 1..Len(sp) : sp[i].k = key

SearchParamsGet(sp, key) ==
  IF SearchParamsHas(sp, key)
  THEN sp[CHOOSE i \in 1..Len(sp) :
            sp[i].k = key /\ \A j \in 1..(i - 1) : sp[j].k # key].v
  ELSE Null

RECURSIVE SearchParamsDelete(_, _)
SearchParamsDelete(sp, key) ==
  IF sp = <<>> THEN <<>>
  ELSE IF Head(sp).k = key THEN SearchParamsDelete(Tail(sp), key)
       ELSE <<Head(sp)>> \o SearchParamsDelete(Tail(sp), key)

RECURSIVE SearchParamsSet(_, _, _)
SearchParamsSet(sp, key, value) ==
  IF sp = <<>> THEN <<[k |-> key, v |-> value]>>
  ELSE IF Head(sp).k = key
       THEN <<[k |-> key, v |-> value]>> \o SearchParamsDelete(Tail(sp), key)
       ELSE <<Head(sp)>> \o SearchParamsSet(Tail(sp), key, value)

\* URLSearchParams.toString(): name=value pairs joined by &, as a list of
\* tokens (names and values are percent-encoded, so no token of a name or a
\* value is "=" or "&")
RECURSIVE toString(_)
toString(sp) ==
  IF sp = <<>> THEN <<>>
  ELSE <<Head(sp).k, "=", Head(sp).v>>
         \o (IF Tail(sp) = <<>> THEN <<>> ELSE <<"&">> \o toString(Tail(sp)))

\* the query string as useSearchParams() returns it after a navigation: the
\* text is split at & and each piece at its =; toString writes every piece
\* as name = value, so the pieces are the token groups 1..3, 5..7, ...
ParseQuery(query) ==
  [n \in 1..((Len(query) + 1) \div 4) |->
     [k |-> query[4 * n - 3], v |-> query[4 * n - 1]]]

(***************************************************************************)
(* UseQueryStateOptions.  A schema is its safeParse: raw string to parsed  *)
(* string or Fail.  NoSchema stands for an options object without schema,  *)
(* NoOptions for a key that has no options object at all.                  *)
(***************************************************************************)
Schemas == [Values -> Values \cup {Fail}]
NoSchema == [v \in Values |-> Undefined]

NoOptions ==
  [defined |-> FALSE, defaultValue |-> Undefined, schema |-> NoSchema,
   onParseError |-> Undefined]

UseQueryStateOptions(schemas) ==
  [defined : {TRUE},
   defaultValue : Values \cup {Undefined},
   schema : schemas \cup {NoSchema},
   onParseError : {Undefined, "fallback", "remove"}]

\* Object.keys(options).length === 0
IsEmptyObject(options) ==
  /\ options.defaultValue = Undefined
  /\ options.schema = NoSchema
  /\ options.onParseError = Undefined

\* JavaScript truthiness of a string-or-undefined-or-null
Truthy(x) == x \notin {"", Undefined, Null}

(***************************************************************************)
(* updateQueryState: the read-modify-write of one key on a URLSearchParams *)
(* (after three faulty variants of it, used to test the properties).       *)
(***************************************************************************)
\* updateQueryState with a schema failure that never falls back: the
\* shouldFallback branch after safeParse is missing
updateQueryState_noFallback(key, value, sp, options) ==
  IF ~options.defined
  THEN IF Truthy(value) THEN SearchParamsSet(sp, key, value)
       ELSE SearchParamsDelete(sp, key)
  ELSE
    LET defaultValue == options.defaultValue
        schema == options.schema
        onParseError == IF options.onParseError = Undefined THEN "fallback"
                        ELSE options.onParseError
        shouldFallback == onParseError = "fallback" /\ Truthy(defaultValue)
        shouldRemove == onParseError = "remove" \/ ~Truthy(defaultValue)
        afterSchema ==
          IF ~Truthy(value) /\ shouldFallback THEN SearchParamsSet(sp, key, defaultValue)
          ELSE IF ~Truthy(value) /\ shouldRemove THEN SearchParamsDelete(sp, key)
          ELSE IF Truthy(value) THEN SearchParamsSet(sp, key, value)
          ELSE sp
    IN IF schema # NoSchema
       THEN IF schema[value] # Fail THEN SearchParamsSet(sp, key, schema[value])
            ELSE IF shouldRemove THEN SearchParamsDelete(sp, key)
            ELSE afterSchema
       ELSE afterSchema

\* updateQueryState that writes the raw value, not validationResult.data
updateQueryState_rawValue(key, value, sp, options) ==
  IF ~options.defined
  THEN IF Truthy(value) THEN SearchParamsSet(sp, key, value)
       ELSE SearchParamsDelete(sp, key)
  ELSE
    LET defaultValue == options.defaultValue
        schema == options.schema
        onParseError == IF options.onParseError = Undefined THEN "fallback"
                        ELSE options.onParseError
        shouldFallback == onParseError = "fallback" /\ Truthy(defaultValue)
        shouldRemove == onParseError = "remove" \/ ~Truthy(defaultValue)
        afterSchema ==
          IF ~Truthy(value) /\ shouldFallback THEN SearchParamsSet(sp, key, defaultValue)
          ELSE IF ~Truthy(value) /\ shouldRemove THEN SearchParamsDelete(sp, key)
          ELSE IF Truthy(value) THEN SearchParamsSet(sp, key, value)
          ELSE sp
    IN IF schema # NoSchema
       THEN IF schema[value] # Fail THEN SearchParamsSet(sp, key, value)
            ELSE IF shouldFallback THEN SearchParamsSet(sp, key, defaultValue)
            ELSE IF shouldRemove THEN SearchParamsDelete(sp, key)
            ELSE afterSchema
       ELSE afterSchema

\* updateQueryState whose no-options branch always sets, also an empty value
updateQueryState_keepEmpty(key, value, sp, options) ==
  IF ~options.defined
  THEN SearchParamsSet(sp, key, value)
  ELSE
    LET defaultValue == options.defaultValue
        schema == options.schema
        onParseError == IF options.onParseError = Undefined THEN "fallback"
                        ELSE options.onParseError
        shouldFallback == onParseError = "fallback" /\ Truthy(defaultValue)
        shouldRemove == onParseError = "remove" \/ ~Truthy(defaultValue)
        afterSchema ==
          IF ~Truthy(value) /\ shouldFallback THEN SearchParamsSet(sp, key, defaultValue)
          ELSE IF ~Truthy(value) /\ shouldRemove THEN SearchParamsDelete(sp, key)
          ELSE IF Truthy(value) THEN SearchParamsSet(sp, key, value)
          ELSE sp
    IN IF schema # NoSchema
       THEN IF schema[value] # Fail THEN SearchParamsSet(sp, key, schema[value])
            ELSE IF shouldFallback THEN SearchParamsSet(sp, key, defaultValue)
            ELSE IF shouldRemove THEN SearchParamsDelete(sp, key)
            ELSE afterSchema
       ELSE afterSchema

\* shouldRemove without the "no defaultValue" alternative
shouldRemove_onlyRemove(options) ==
  (IF options.onParseError = Undefined THEN "fallback" ELSE options.onParseError)
    = "remove"

\* shouldFallback that never holds
shouldFallback_never(options) == FALSE

\* the two flags updateQueryState computes from the destructured options
shouldFallback(options) ==
  (IF options.onParseError = Undefined THEN "fallback" ELSE options.onParseError)
    = "fallback" /\ Truthy(options.defaultValue)

shouldRemove(options) ==
  (IF options.onParseError = Undefined THEN "fallback" ELSE options.onParseError)
    = "remove" \/ ~Truthy(options.defaultValue)

\* the statement at which updateQueryState returns: searchParams.set with a
\* value, searchParams.delete, or the end of the function with neither
updateQueryState_return(value, options) ==
  IF ~options.defined
  THEN IF Truthy(value) THEN [act |-> "set", v |-> value]
       ELSE [act |-> "delete", v |-> Null]
  ELSE
    LET defaultValue == options.defaultValue
        schema == options.schema
        afterSchema ==
          IF ~Truthy(value) /\ shouldFallback(options)
          THEN [act |-> "set", v |-> defaultValue]
          ELSE IF ~Truthy(value) /\ shouldRemove(options)
          THEN [act |-> "delete", v |-> Null]
          ELSE IF Truthy(value) THEN [act |-> "set", v |-> value]
          ELSE [act |-> "none", v |-> Null]
    IN IF schema # NoSchema
       THEN IF schema[value] # Fail THEN [act |-> "set", v |-> schema[value]]
            ELSE IF shouldFallback(options) THEN [act |-> "set", v |-> defaultValue]
            ELSE IF shouldRemove(options) THEN [act |-> "delete", v |-> Null]
            ELSE afterSchema
       ELSE afterSchema

updateQueryState(key, value, sp, options) ==
  LET r == updateQueryState_return(value, options)
  IN IF r.act = "set" THEN SearchParamsSet(sp, key, r.v)
     ELSE IF r.act = "delete" THEN SearchParamsDelete(sp, key)
     ELSE sp

\* new URLSearchParams(searchParams) followed by one update
createSearchParams(update, sp, options) ==
  updateQueryState(update[1], update[2], sp, options)

\* new URLSearchParams(searchParams) followed by the updates in order;
\* options?.[key] is NoOptions for a key without an entry
RECURSIVE createSearchParamsWithMany(_, _, _)
RECURSIVE createSearchParamsWithMany_firstWins(_, _, _)
\* the loop run from the last update to the first: the first write wins
createSearchParamsWithMany_firstWins(updates, sp, options) ==
  IF updates = <<>> THEN sp
  ELSE LET u == updates[Len(updates)]
       IN createSearchParamsWithMany_firstWins(
            SubSeq(updates, 1, Len(updates) - 1),
            updateQueryState(u[1], u[2], sp, options[u[1]]),
            options)

createSearchParamsWithMany(updates, sp, options) ==
  IF updates = <<>> THEN sp
  ELSE createSearchParamsWithMany(
         Tail(updates),
         updateQueryState(Head(updates)[1], Head(updates)[2], sp,
                          options[Head(updates)[1]]),
         options)

\* the two objects after a call of createSearchParamsWithMany: the argument
\* searchParams, which only the URLSearchParams constructor reads, and the
\* copy urlSearchParams that the loop has updated and the call returns
createSearchParamsWithMany_call(updates, sp, options) ==
  [searchParams |-> sp,
   urlSearchParams |-> createSearchParamsWithMany(updates, sp, options)]

(***************************************************************************)
(* useQueryString: the single-key hook.                                    *)
(***************************************************************************)
\* setQueryString that forgets to pass the options on
useQueryString_setQueryString_noOptions(key, value, sp, options) ==
  <<toString(createSearchParams(<<key, value>>, sp, NoOptions))>>

\* setQueryString(value): one router.replace, computed from the snapshot of
\* the render that created the closure
useQueryString_setQueryString(key, value, sp, options) ==
  <<toString(createSearchParams(<<key, value>>, sp, options))>>

\* the condition of the effect for a key that has options
useQueryString_needsUpdate(mounted, key, sp, options) ==
  LET hasParam == SearchParamsHas(sp, key)
      paramValue == SearchParamsGet(sp, key)
      hasDefaultValue == Truthy(options.defaultValue)
      hasSchema == options.schema # NoSchema
  IN \/ (~mounted /\ hasDefaultValue /\ paramValue # options.defaultValue)
     \/ (~mounted /\ ~hasDefaultValue /\ hasSchema)
     \/ (hasParam /\ ~Truthy(paramValue))
     \/ (~hasParam /\ hasDefaultValue)

\* the effect: the updates it decides, the replaces it issues and the new
\* value of isMounted.current
useQueryString_effect(mounted, key, sp, options) ==
  LET hasParam == SearchParamsHas(sp, key)
      paramValue == SearchParamsGet(sp, key)
  IN IF ~options.defined \/ IsEmptyObject(options)
     THEN IF hasParam /\ ~Truthy(paramValue)
          THEN [updates |-> <<<<key, "">>>>,
                navs |-> useQueryString_setQueryString(key, "", sp, options),
                isMounted |-> mounted]
          ELSE [updates |-> <<>>, navs |-> <<>>, isMounted |-> mounted]
     ELSE IF useQueryString_needsUpdate(mounted, key, sp, options)
          THEN LET value == IF paramValue = Null THEN "" ELSE paramValue
               IN [updates |-> <<<<key, value>>>>,
                   navs |-> useQueryString_setQueryString(key, value, sp, options),
                   isMounted |-> TRUE]
          ELSE [updates |-> <<>>, navs |-> <<>>, isMounted |-> mounted]

(***************************************************************************)
(* useQueryStrings: the multi-key hook.                                    *)
(***************************************************************************)
\* updateSearchParams that issues one replace per update, each computed from
\* the snapshot of the render
updateSearchParams_perUpdate(updates, sp, options) ==
  [n \in 1..Len(updates) |->
     toString(createSearchParamsWithMany(<<updates[n]>>, sp, options))]

\* updateSearchParams(updates): nothing for an empty list, else one replace
updateSearchParams(updates, sp, options) ==
  IF Len(updates) = 0 THEN <<>>
  ELSE <<toString(createSearchParamsWithMany(updates, sp, options))>>

\* the decision of getSearchParamsUpdates for one key
getSearchParamsUpdates_key(mounted, key, sp, paramOptions) ==
  LET hasParam == SearchParamsHas(sp, key)
      paramValue == SearchParamsGet(sp, key)
      hasDefaultValue == Truthy(paramOptions.defaultValue)
      hasSchema == paramOptions.schema # NoSchema
  IN IF ~paramOptions.defined \/ IsEmptyObject(paramOptions)
     THEN IF hasParam /\ ~Truthy(paramValue) THEN <<<<key, "">>>> ELSE <<>>
     ELSE IF \/ (~mounted /\ hasDefaultValue /\ paramValue # paramOptions.defaultValue)
             \/ (~mounted /\ ~hasDefaultValue /\ hasSchema)
             \/ (hasParam /\ ~Truthy(paramValue))
             \/ (~hasParam /\ hasDefaultValue)
          THEN <<<<key, IF paramValue = Null THEN "" ELSE paramValue>>>>
          ELSE <<>>

\* the loop over keys, in order
RECURSIVE getSearchParamsUpdates(_, _, _, _)
getSearchParamsUpdates(mounted, keys, sp, options) ==
  IF keys = <<>> THEN <<>>
  ELSE getSearchParamsUpdates_key(mounted, Head(keys), sp, options[Head(keys)])
         \o getSearchParamsUpdates(mounted, Tail(keys), sp, options)

useQueryStrings_effect(mounted, keys, sp, options) ==
  LET updates == getSearchParamsUpdates(mounted, keys, sp, options)
  IN [updates |-> updates,
      navs |-> IF Len(updates) > 0 THEN updateSearchParams(updates, sp, options)
               ELSE <<>>,
      isMounted |-> TRUE]

\* the multi-key setter building the query from an empty URLSearchParams
useQueryStrings_setQueryString_fromEmpty(key, value, sp, options) ==
  updateSearchParams(<<<<key, value>>>>, <<>>, options)

useQueryStrings_setQueryString(key, value, sp, options) ==
  updateSearchParams(<<<<key, value>>>>, sp, options)

(***************************************************************************)
(* The state machine.  url is the live query string owned by the router;   *)
(* searchParams[i] the snapshot instance i read at its latest render;      *)
(* effectPending[i] whether that render's effect has yet to run.  hasRun   *)
(* and last record what happened: whether the effect of an instance has    *)
(* run at all, and the latest step (first: the step was the first effect   *)
(* run of its instance; follows: the step is an effect run, or the render  *)
(* before it, that comes straight after an effect run of the same          *)
(* instance; prev: for a setter call, the setter call the same instance    *)
(* made just before it in the same render; for a render and for the effect *)
(* run of that render, the setter call of the same instance that the       *)
(* render comes straight after).                                           *)
(***************************************************************************)
Insts == DOMAIN hook

\* router.replace: the replaces of one step are applied in the order issued;
\* the live query string is the one of the latest, read back by the router
RouterReplace(navs) == IF navs = <<>> THEN url ELSE ParseQuery(navs[Len(navs)])

InitWith(hooks, urls) ==
  /\ hook \in hooks
  /\ url \in urls
  /\ isMounted = [i \in DOMAIN hook |-> FALSE]
  /\ searchParams = [i \in DOMAIN hook |-> url]
  /\ effectPending = [i \in DOMAIN hook |-> TRUE]
  /\ hasRun = [i \in DOMAIN hook |-> FALSE]
  /\ last = [op |-> "init", inst |-> 0, updates |-> <<>>, navCount |-> 0,
             wasMounted |-> FALSE, first |-> FALSE, follows |-> FALSE, prev |-> <<>>]

\* a committed render of instance i: useSearchParams() is read again
Render(i) ==
  /\ ~effectPending[i]
  /\ searchParams' = [searchParams EXCEPT ![i] = url]
  /\ effectPending' = [effectPending EXCEPT ![i] = TRUE]
  /\ last' = [op |-> "render", inst |-> i, updates |-> <<>>, navCount |-> 0,
              wasMounted |-> isMounted[i], first |-> FALSE,
              follows |-> (last.op = "effect" /\ last.inst = i),
              prev |-> IF last.op = "set" /\ last.inst = i THEN last.updates[1]
                       ELSE <<>>]
  /\ UNCHANGED <<url, hook, isMounted, hasRun>>

Effect(i, r) ==
  /\ url' = RouterReplace(r.navs)
  /\ isMounted' = [isMounted EXCEPT ![i] = r.isMounted]
  /\ effectPending' = [effectPending EXCEPT ![i] = FALSE]
  /\ hasRun' = [hasRun EXCEPT ![i] = TRUE]
  /\ last' = [op |-> "effect", inst |-> i, updates |-> r.updates,
              navCount |-> Len(r.navs), wasMounted |-> isMounted[i],
              first |-> ~hasRun[i],
              follows |-> (last.op = "render" /\ last.inst = i /\ last.follows),
              prev |-> IF last.op = "render" /\ last.inst = i THEN last.prev
                       ELSE <<>>]
  /\ UNCHANGED <<hook, searchParams>>

\* the useEffect of useQueryString
SingleEffect(i) ==
  /\ hook[i].mode = "single"
  /\ effectPending[i]
  /\ Effect(i, useQueryString_effect(isMounted[i], hook[i].keys[1], searchParams[i],
                                     hook[i].options[hook[i].keys[1]]))

\* the useEffect of useQueryStrings
MultiEffect(i) ==
  /\ hook[i].mode = "multi"
  /\ effectPending[i]
  /\ Effect(i, useQueryStrings_effect(isMounted[i], hook[i].keys, searchParams[i],
                                      hook[i].options))

Setter(i, key, value, navs) ==
  /\ ~effectPending[i]
  /\ url' = RouterReplace(navs)
  /\ last' = [op |-> "set", inst |-> i, updates |-> <<<<key, value>>>>,
              navCount |-> Len(navs), wasMounted |-> isMounted[i], first |-> FALSE,
              follows |-> FALSE,
              prev |-> IF last.op = "set" /\ last.inst = i THEN last.updates[1]
                       ELSE <<>>]
  /\ UNCHANGED <<hook, isMounted, searchParams, effectPending, hasRun>>

\* the setter returned by useQueryString
SingleSet(i, value) ==
  /\ hook[i].mode = "single"
  /\ Setter(i, hook[i].keys[1], value,
            useQueryString_setQueryString(hook[i].keys[1], value, searchParams[i],
                                          hook[i].options[hook[i].keys[1]]))

\* the setter returned by useQueryStrings
MultiSet(i, key, value) ==
  /\ hook[i].mode = "multi"
  /\ Setter(i, key, value,
            useQueryStrings_setQueryString(key, value, searchParams[i], hook[i].options))

Range(s) == {s[n] : n \in 1..Len(s)}

Next ==
  \/ \E i \in Insts : Render(i)
  \/ \E i \in Insts : SingleEffect(i)
  \/ \E i \in Insts : MultiEffect(i)
  \/ \E i \in Insts, value \in Values : SingleSet(i, value)
  \/ \E i \in Insts : \E key \in Range(hook[i].keys), value \in Values : MultiSet(i, key, value)

(***************************************************************************)
(* Configurations and initial snapshots.                                   *)
(***************************************************************************)
KeyOptions(schemas) == {NoOptions} \cup UseQueryStateOptions(schemas)

SingleHooks(schemas) ==
  {[mode |-> "single", keys |-> <<"page">>, options |-> [k \in {"page"} |-> o]] :
     o \in KeyOptions(schemas)}

MultiHooks(keys, schemas) ==
  {[mode |-> "multi", keys |-> keys, options |-> o] :
     o \in [Range(keys) -> KeyOptions(schemas)]}

\* initial query strings: the keys in keys with any value, the key utm (which
\* no hook tracks) with one value
Urls(keys) ==
  SeqsUpTo([k : keys, v : Values] \cup [k : {"utm"}, v : {"a"}], MaxUrlLen)

\* z.enum(["b"]), the schema of the two-key configurations
zEnumB == [v \in Values |-> IF v = "b" THEN "b" ELSE Fail]

BatchOptions ==
  {NoOptions} \cup
  [defined : {TRUE},
   defaultValue : {Undefined, "a"},
   schema : {NoSchema, zEnumB},
   onParseError : {Undefined, "remove"}]

\* the second key has no options, a defaultValue only, or a schema only
SortOptions ==
  {o \in BatchOptions :
     /\ o.onParseError = Undefined
     /\ (o.defaultValue = Undefined) # (o.schema = NoSchema) \/ ~o.defined}

BatchHooks ==
  {[mode |-> "multi", keys |-> <<"page", "sort">>,
    options |-> [k \in {"page", "sort"} |-> IF k = "page" THEN p ELSE q]] :
     p \in BatchOptions, q \in SortOptions}

\* one instance: either hook on the key page with every schema over Values,
\* or useQueryStrings on page and sort
Init ==
  \/ InitWith([{1} -> SingleHooks(Schemas) \cup MultiHooks(<<"page">>, Schemas)],
              Urls({"page"}))
  \/ InitWith([{1} -> BatchHooks], Urls({"page", "sort"}))

Spec == Init /\ [][Next]_vars

(***************************************************************************)
(* Properties.  After an effect run or a setter call of instance last.inst *)
(* the snapshot the step worked on is still searchParams[last.inst] and    *)
(* the snapshot it left behind is url.                                     *)
(***************************************************************************)
Base == searchParams[last.inst]
LastKeys == Range(hook[last.inst].keys)
LastOptions(key) == hook[last.inst].options[key]
FirstPass == last.op = "effect" /\ last.first

\* onParseError = "fallback" in the destructuring of updateQueryState
ResolvedOnParseError(o) ==
  IF o.onParseError = Undefined THEN "fallback" ELSE o.onParseError

\* the entries of one name, and the entries of all other names, in order
EntriesOf(sp, key) == SelectSeq(sp, LAMBDA e : e.k = key)
EntriesBut(sp, key) == SelectSeq(sp, LAMBDA e : e.k # key)

\* C1: default materialization.  After the first reconciliation pass, every
\* tracked key that has a (non-empty) defaultValue D and was absent from the
\* snapshot at mount is mapped to D, whatever the schema and onParseError.
DefaultMaterialization ==
  FirstPass =>
    \A key \in LastKeys :
      (/\ LastOptions(key).defined
       /\ Truthy(LastOptions(key).defaultValue)
       /\ ~SearchParamsHas(Base, key))
      => SearchParamsGet(url, key) = LastOptions(key).defaultValue

\* the case of C2 and C3: the key is present in the snapshot the pass works
\* on, with a value its schema rejects
RejectedValue(key) ==
  /\ LastOptions(key).defined
  /\ LastOptions(key).schema # NoSchema
  /\ SearchParamsHas(Base, key)
  /\ LastOptions(key).schema[SearchParamsGet(Base, key)] = Fail

\* C2 as stated: fallback policy.  With a schema that rejects the value X the
\* key has at mount, any defaultValue D and onParseError = "fallback", the
\* snapshot after the first reconciliation pass maps the key to D.
FallbackPolicyAnyDefault ==
  FirstPass =>
    \A key \in LastKeys :
      (/\ RejectedValue(key)
       /\ LastOptions(key).defaultValue # Undefined
       /\ LastOptions(key).onParseError = "fallback")
      => SearchParamsGet(url, key) = LastOptions(key).defaultValue

\* C2 amended: fallback policy for a non-empty defaultValue.  With a schema
\* that rejects the value X the key has at mount, a non-empty defaultValue D
\* and onParseError = "fallback" (given, or by default), the snapshot after
\* the first reconciliation pass maps the key to D.
FallbackPolicy ==
  FirstPass =>
    \A key \in LastKeys :
      (/\ RejectedValue(key)
       /\ Truthy(LastOptions(key).defaultValue)
       /\ ResolvedOnParseError(LastOptions(key)) = "fallback")
      => SearchParamsGet(url, key) = LastOptions(key).defaultValue

\* C2 witness: a first pass has replaced a rejected value other than D by D
FallbackPolicyWitness ==
  /\ FirstPass
  /\ \E key \in LastKeys :
       /\ RejectedValue(key)
       /\ Truthy(LastOptions(key).defaultValue)
       /\ LastOptions(key).onParseError = "fallback"
       /\ SearchParamsGet(Base, key) \notin {"", LastOptions(key).defaultValue}
       /\ SearchParamsGet(url, key) = LastOptions(key).defaultValue
       /\ last.navCount = 1

\* C3: removal policy.  With a schema that rejects the value X the key has,
\* and either onParseError = "remove" (any defaultValue, D = X included) or
\* no defaultValue, the snapshot after a reconciliation pass does not have
\* the key.
RemovalPolicy ==
  last.op = "effect" =>
    \A key \in LastKeys :
      (/\ RejectedValue(key)
       /\ \/ LastOptions(key).onParseError = "remove"
          \/ LastOptions(key).defaultValue = Undefined)
      => ~SearchParamsHas(url, key)

Unconfigured(key) ==
  ~LastOptions(key).defined \/ IsEmptyObject(LastOptions(key))

UpdatesFor(key) == SelectSeq(last.updates, LAMBDA u : u[1] = key)

\* C5: a tracked key without configuration is never defaulted or validated.
\* In every reconciliation pass a correction is emitted for it exactly when
\* it is present with an empty value; that correction removes the key; in
\* every other case its entries are left exactly as they are.
UnconfiguredPassThrough ==
  last.op = "effect" =>
    \A key \in LastKeys :
      Unconfigured(key) =>
        IF SearchParamsHas(Base, key) /\ SearchParamsGet(Base, key) = ""
        THEN /\ UpdatesFor(key) = <<<<key, "">>>>
             /\ ~SearchParamsHas(url, key)
        ELSE /\ UpdatesFor(key) = <<>>
             /\ EntriesOf(url, key) = EntriesOf(Base, key)

\* C5 witness: the URL ?page= has become the empty query by the first pass of
\* a hook that has no options for page
UnconfiguredPassThroughWitness ==
  /\ FirstPass
  /\ Unconfigured("page")
  /\ Base = <<[k |-> "page", v |-> ""]>>
  /\ url = <<>>
  /\ last.navCount = 1

\* what the update policy alone makes of one key: the key's entries after
\* the single update (key, value) on the snapshot sp
PolicyEntries(key, value, sp, options) ==
  EntriesOf(updateQueryState(key, value, sp, options), key)

\* C6: batch atomicity.  A reconciliation pass of the multi-key hook issues
\* exactly one navigation replace when it has a correction for at least one
\* key and none otherwise; that replace carries the correction of every key:
\* each corrected key has the entries the update policy gives it, every
\* other name keeps its entries.
BatchAtomicity ==
  (last.op = "effect" /\ hook[last.inst].mode = "multi") =>
    /\ last.navCount = (IF last.updates = <<>> THEN 0 ELSE 1)
    /\ \A key \in AllKeys :
         IF key \in LastKeys /\ UpdatesFor(key) # <<>>
         THEN /\ Len(UpdatesFor(key)) = 1
              /\ EntriesOf(url, key) =
                   PolicyEntries(key, UpdatesFor(key)[1][2], Base, LastOptions(key))
         ELSE EntriesOf(url, key) = EntriesOf(Base, key)

\* C6 witness: page is missing and has the default "a", sort is present and
\* empty and has no configuration; one replace has produced ?page=a
BatchAtomicityWitness ==
  /\ FirstPass
  /\ hook[last.inst].keys = <<"page", "sort">>
  /\ LastOptions("page").defaultValue = "a"
  /\ LastOptions("page").schema = NoSchema
  /\ ~LastOptions("sort").defined
  /\ Base = <<[k |-> "sort", v |-> ""]>>
  /\ last.updates = << <<"page", "">>, <<"sort", "">> >>
  /\ last.navCount = 1
  /\ url = <<[k |-> "page", v |-> "a"]>>

\* C7: fixed point.  A reconciliation pass that runs on the snapshot left by
\* the previous pass of the same instance (nothing else has written the URL
\* in between) emits no correction and issues no navigation replace.
FixedPoint ==
  (last.op = "effect" /\ last.follows) =>
    /\ last.updates = <<>>
    /\ last.navCount = 0

\* C8: the single-key setter.  setter(value) issues exactly one navigation
\* replace; its query is the update policy for (key, value, options) applied
\* to the snapshot of the current render; this is so whether isMounted is
\* set or not, and the call leaves isMounted as it was.
SingleSetter ==
  (last.op = "set" /\ hook[last.inst].mode = "single") =>
    LET key == hook[last.inst].keys[1]
        value == last.updates[1][2]
    IN /\ last.navCount = 1
       /\ url = updateQueryState(key, value, Base, LastOptions(key))
       /\ isMounted[last.inst] = last.wasMounted

\* C8 witness: a setter call made while isMounted is still false (the first
\* pass had nothing to correct) has replaced the value of the key by the
\* configured schema's result
SingleSetterWitness ==
  /\ last.op = "set" /\ hook[last.inst].mode = "single"
  /\ hasRun[last.inst] /\ ~isMounted[last.inst]
  /\ LastOptions("page").schema # NoSchema
  /\ last.updates[1][2] # ""
  /\ SearchParamsGet(Base, "page") \notin {Null, SearchParamsGet(url, "page")}
  /\ SearchParamsGet(url, "page") = LastOptions("page").schema[last.updates[1][2]]
  /\ SearchParamsGet(url, "page") # last.updates[1][2]

\* C9: the multi-key setter.  setter(key, value) issues exactly one
\* navigation replace, in which the entries of key are those the update
\* policy gives it and every other name, tracked or not, has the entries it
\* has in the snapshot of the current render.
MultiSetter ==
  (last.op = "set" /\ hook[last.inst].mode = "multi") =>
    LET key == last.updates[1][1]
        value == last.updates[1][2]
    IN /\ last.navCount = 1
       /\ EntriesOf(url, key) = PolicyEntries(key, value, Base, LastOptions(key))
       /\ EntriesBut(url, key) = EntriesBut(Base, key)

\* C9 witness: setter("page", v) while sort, which has a defaultValue, is
\* missing from the snapshot and utm is present: page changes, sort stays
\* missing and utm stays
MultiSetterWitness ==
  /\ last.op = "set" /\ hook[last.inst].keys = <<"page", "sort">>
  /\ last.updates[1][1] = "page"
  /\ Truthy(LastOptions("sort").defaultValue)
  /\ ~SearchParamsHas(Base, "sort") /\ ~SearchParamsHas(url, "sort")
  /\ SearchParamsHas(Base, "utm") /\ SearchParamsHas(url, "utm")
  /\ SearchParamsGet(url, "page") # SearchParamsGet(Base, "page")

\* C10: batched setter calls.  When the multi-key setter is called for two
\* different keys in the same render, one call straight after the other,
\* the URL after the second call reflects both: each of the two keys has the
\* entries the update policy gives it.
SetterCallsBatched ==
  (/\ last.op = "set"
   /\ hook[last.inst].mode = "multi"
   /\ last.prev # <<>>
   /\ last.prev[1] # last.updates[1][1])
  => \A call \in {last.prev, last.updates[1]} :
       EntriesOf(url, call[1]) =
         PolicyEntries(call[1], call[2], Base, LastOptions(call[1]))

\* C11: without a defaultValue a missing key stays missing.  A reconciliation
\* pass that works on a snapshot without the key, for a key that has no
\* defaultValue, leaves the key out of the URL (the value the hook returns
\* stays null), whatever the schema.
NullWithoutDefault ==
  last.op = "effect" =>
    \A key \in LastKeys :
      (LastOptions(key).defaultValue = Undefined /\ ~SearchParamsHas(Base, key))
      => ~SearchParamsHas(url, key)

\* C12: the update policy is total and deterministic.  For every update a
\* step applies: exactly one of shouldFallback and shouldRemove holds for the
\* key's options; the policy ends in searchParams.set or in
\* searchParams.delete, never in neither; after a set the key is present
\* with the value set, after a delete it is absent.
PolicyTotal ==
  last.op \in {"effect", "set"} =>
    \A n \in 1..Len(last.updates) :
      LET key == last.updates[n][1]
          r == updateQueryState_return(last.updates[n][2], LastOptions(key))
      IN /\ LastOptions(key).defined =>
              (shouldFallback(LastOptions(key)) # shouldRemove(LastOptions(key)))
         /\ r.act \in {"set", "delete"}
         /\ r.act = "set" =>
              EntriesOf(url, key) = <<[k |-> key, v |-> r.v]>>
         /\ r.act = "delete" => ~SearchParamsHas(url, key)

\* C12 witness: a setter call with a non-empty value that the schema rejects,
\* for a key with onParseError "fallback" and no defaultValue, has removed a
\* key that was present
PolicyTotalWitness ==
  /\ last.op = "set"
  /\ LET key == last.updates[1][1]
         o == LastOptions(key)
     IN /\ o.defined /\ o.schema # NoSchema /\ o.onParseError = "fallback"
        /\ o.defaultValue = Undefined
        /\ last.updates[1][2] # "" /\ o.schema[last.updates[1][2]] = Fail
        /\ SearchParamsHas(Base, key) /\ ~SearchParamsHas(url, key)

\* C13: mount state.  isMounted is false at mount, true once the first
\* reconciliation pass of the instance has run, whether or not that pass
\* emitted a correction, and true ever after; in both hooks.
MountStateFlips ==
  /\ \A i \in Insts : ~hasRun[i] => ~isMounted[i]
  /\ \A i \in Insts : hasRun[i] => isMounted[i]

\* C14: an explicit set takes effect.  After setter(v) with a non-empty v has
\* written a non-empty value for the key, the reconciliation pass of the
\* render that comes straight after the call leaves the key's entries as the
\* call wrote them.
ExplicitSetSticks ==
  (/\ last.op = "effect"
   /\ last.prev # <<>>
   /\ last.prev[2] # ""
   /\ Truthy(SearchParamsGet(Base, last.prev[1])))
  => EntriesOf(url, last.prev[1]) = EntriesOf(Base, last.prev[1])

\* C15: validity invariant.  Once the first reconciliation pass has run, and
\* after any setter calls, every tracked key with a schema is absent, or holds
\* a value that the schema accepts or that a successful schema validation
\* returns, or holds defaultValue while onParseError resolves to fallback: a
\* schema-rejected value never remains in the URL.
ValidityInvariant ==
  \A i \in Insts :
    hasRun[i] =>
      \A key \in Range(hook[i].keys) :
        LET o == hook[i].options[key] IN
        (o.defined /\ o.schema # NoSchema) =>
          \/ ~SearchParamsHas(url, key)
          \/ o.schema[SearchParamsGet(url, key)] # Fail
          \/ \E x \in Values : /\ o.schema[x] # Fail
                               /\ o.schema[x] = SearchParamsGet(url, key)
          \/ /\ Truthy(o.defaultValue)
             /\ SearchParamsGet(url, key) = o.defaultValue
             /\ ResolvedOnParseError(o) = "fallback"

(***************************************************************************)
(* createSearchParamsWithMany as a pure function: a caller holding the     *)
(* snapshot searchParams[1] calls it with a batch of updates for the keys  *)
(* of hook[1]; nothing is navigated, the returned object is kept in        *)
(* last.result.                                                            *)
(***************************************************************************)
MaxBatch == 2

\* NonEmptyArray<[Key, Value]> over the given keys, repeated keys included
Batches(keys) == SeqsUpTo(keys \X Values, MaxBatch) \ {<<>>}

Build(updates) ==
  LET call == createSearchParamsWithMany_call(updates, searchParams[1],
                                              hook[1].options)
  IN /\ searchParams' = [searchParams EXCEPT ![1] = call.searchParams]
     /\ last' = [op |-> "build", inst |-> 1, updates |-> updates, navCount |-> 0,
                 wasMounted |-> FALSE, first |-> FALSE, follows |-> FALSE,
                 prev |-> <<>>, result |-> call.urlSearchParams]
     /\ UNCHANGED <<url, hook, isMounted, effectPending, hasRun>>

InitBuilder ==
  \/ InitWith([{1} -> MultiHooks(<<"page">>, Schemas)], Urls({"page"}))
  \/ InitWith([{1} -> BatchHooks], Urls({"page", "sort"}))

\* one call per behaviour
NextBuilder ==
  /\ last.op = "init"
  /\ \E updates \in Batches(Range(hook[1].keys)) : Build(updates)

SpecBuilder == InitBuilder /\ [][NextBuilder]_vars

\* the last update of a batch for a key
LastUpdateFor(updates, key) ==
  updates[CHOOSE n \in 1..Len(updates) :
            /\ updates[n][1] = key
            /\ \A m \in (n + 1)..Len(updates) : updates[m][1] # key]

\* C16: Params Builder last-write-wins.  After a batch has been applied, the
\* entries of every key of the batch are those the update policy gives for the
\* key's last update alone (applied to an empty query, so without the earlier
\* updates and without the base snapshot's entry), the entries of the other
\* keys are those of the base snapshot, and the base snapshot is as it was.
LastWriteWins ==
  last.op = "build" =>
    /\ \A key \in {u[1] : u \in Range(last.updates)} :
         EntriesOf(last.result, key) =
           updateQueryState(key, LastUpdateFor(last.updates, key)[2], <<>>,
                            LastOptions(key))
    /\ \A key \in AllKeys \ {u[1] : u \in Range(last.updates)} :
         EntriesOf(last.result, key) = EntriesOf(url, key)
    /\ searchParams[1] = url

\* C16 witness: a batch with two updates of one key that the policy treats
\* differently, on a base snapshot that has the key with yet another entry
LastWriteWinsWitness ==
  /\ last.op = "build"
  /\ Len(last.updates) = 2
  /\ last.updates[1][1] = last.updates[2][1]
  /\ LET key == last.updates[1][1]
         first == updateQueryState(key, last.updates[1][2], <<>>, LastOptions(key))
     IN /\ SearchParamsHas(url, key)
        /\ EntriesOf(last.result, key) # first
        /\ EntriesOf(last.result, key) # EntriesOf(url, key)
        /\ EntriesOf(last.result, key) # <<>>
        /\ first # <<>>
        /\ searchParams[1] = url

\* C17: the two modes share one reconciliation algorithm.  For a hook with one
\* tracked key, every effect run leaves the Mount State and issues the
\* replaces that the effect of the other mode gives for the same key, the same
\* configuration, the same Mount State and the same snapshot.
ModesAgree ==
  (last.op = "effect" /\ Len(hook[last.inst].keys) = 1) =>
    LET key == hook[last.inst].keys[1]
        other == IF hook[last.inst].mode = "single"
                 THEN useQueryStrings_effect(last.wasMounted, <<key>>, Base,
                                             hook[last.inst].options)
                 ELSE useQueryString_effect(last.wasMounted, key, Base,
                                            LastOptions(key))
    IN /\ other.isMounted = isMounted[last.inst]
       /\ Len(other.navs) = last.navCount
       /\ other.navs # <<>> => ParseQuery(other.navs[Len(other.navs)]) = url

(***************************************************************************)
(* Two instances of useQueryString on one page, tracking different keys.   *)
(* Both have rendered on the same snapshot and their effects are pending;  *)
(* the effects run, and the renders that the replaces cause follow, in any *)
(* order.                                                                  *)
(***************************************************************************)
SingleHooksOn(key, options) ==
  {[mode |-> "single", keys |-> <<key>>, options |-> [k \in {key} |-> o]] :
     o \in options}

InitTwo ==
  InitWith({[i \in {1, 2} |-> IF i = 1 THEN p ELSE s] :
              p \in SingleHooksOn("page", BatchOptions),
              s \in SingleHooksOn("sort", BatchOptions)},
           Urls({"page", "sort"}))

NextTwo ==
  \/ \E i \in Insts : Render(i)
  \/ \E i \in Insts : SingleEffect(i)

SpecTwo == InitTwo /\ [][NextTwo]_vars

\* no instance has a correction left to emit: every instance has rendered on
\* the live query string, its effect has run, and a further pass on it emits
\* nothing
Quiescent ==
  \A i \in Insts :
    /\ ~effectPending[i]
    /\ searchParams[i] = url
    /\ useQueryString_effect(isMounted[i], hook[i].keys[1], url,
                             hook[i].options[hook[i].keys[1]]).navs = <<>>

\* C18: two instances on different keys whose first passes work on the same
\* snapshot.  Once no instance has a correction left to emit, every
\* instance's key complies with its configuration: a key with a defaultValue
\* and fallback is present, and a value the schema rejects is not in the URL
\* unless it is the defaultValue.
NoLostCorrection ==
  Quiescent =>
    \A i \in Insts :
      LET key == hook[i].keys[1]
          o == hook[i].options[key]
      IN o.defined =>
           /\ (Truthy(o.defaultValue) /\ ResolvedOnParseError(o) = "fallback")
                => SearchParamsHas(url, key)
           /\ (o.schema # NoSchema /\ SearchParamsHas(url, key))
                => \/ o.schema[SearchParamsGet(url, key)] # Fail
                   \/ SearchParamsGet(url, key) = o.defaultValue

\* a key with a non-empty defaultValue whose onParseError resolves to fallback
KeepsDefault(o) ==
  o.defined /\ Truthy(o.defaultValue) /\ ResolvedOnParseError(o) = "fallback"

\* C19: a key with a non-empty defaultValue and fallback is never deleted by
\* the update policy.  Every update a reconciliation pass or a setter call
\* applies to such a key ends in searchParams.set and leaves exactly one entry
\* for the key: the schema's result when the schema accepts the raw value
\* (the only way to an empty value), defaultValue when the raw value is empty
\* or rejected, the raw value otherwise.  After the first pass the key is
\* present whether or not the pass corrected it.
DefaultNeverDeleted ==
  /\ last.op \in {"effect", "set"} =>
       \A n \in 1..Len(last.updates) :
         LET key == last.updates[n][1]
             value == last.updates[n][2]
             o == LastOptions(key)
             accepted == o.schema # NoSchema /\ o.schema[value] # Fail
         IN KeepsDefault(o) =>
              /\ updateQueryState_return(value, o).act = "set"
              /\ EntriesOf(url, key) =
                   <<[k |-> key,
                      v |-> IF accepted THEN o.schema[value]
                            ELSE IF value = "" \/ o.schema # NoSchema
                            THEN o.defaultValue
                            ELSE value]>>
              /\ SearchParamsGet(url, key) = "" => (accepted /\ o.schema[value] = "")
  /\ FirstPass =>
       \A key \in LastKeys :
         KeepsDefault(LastOptions(key)) =>
           /\ SearchParamsHas(url, key)
           /\ UpdatesFor(key) = <<>> =>
                SearchParamsGet(url, key) = LastOptions(key).defaultValue

\* C19 witness: setter("") on such a key, whose schema rejects "", while the
\* key holds another value: the key now holds defaultValue
DefaultNeverDeletedWitness ==
  /\ last.op = "set"
  /\ last.updates[1][2] = ""
  /\ LET key == last.updates[1][1]
         o == LastOptions(key)
     IN /\ KeepsDefault(o)
        /\ o.schema # NoSchema
        /\ o.schema[""] = Fail
        /\ SearchParamsGet(Base, key) \notin {Null, "", o.defaultValue}
        /\ EntriesOf(url, key) = <<[k |-> key, v |-> o.defaultValue]>>

====
